---- MODULE Spec2Model ----
(***************************************************************************)
(* Model of scripts/switch_platform.py: the platform switch of VSCode      *)
(* configuration files.                                                    *)
(*                                                                         *)
(* A line is a sequence of tokens.  A token is one character (" ", "/",    *)
(* "x") or one of the words the script looks for, taken as a unit          *)
(* ("PLATFORM_SWITCH_START", "PLATFORM_SWITCH_END", "Configuration",       *)
(* "Windows", "MacOS").  The trailing newline of a line is left out: no    *)
(* operation of the script touches it.                                     *)
(***************************************************************************)
EXTENDS Integers, Sequences, FiniteSets, TLC

VARIABLES current_platform, file, lines, result, in_switch_block,
          current_section, idx, pc, runs

vars == <<current_platform, file, lines, result, in_switch_block,
          current_section, idx, pc, runs>>

(* ------------------------------ bounds --------------------------------- *)

MaxLines == 3

MaxRegionLines == 5

MaxRuns == 3

(* ------------------------------ tokens --------------------------------- *)

START == "PLATFORM_SWITCH_START"

END == "PLATFORM_SWITCH_END"

CONFIGURATION == "Configuration"

None == <<>>

WordTokens == {"x", "Windows", "MacOS", "Linux", CONFIGURATION, START, END}

IsWord(tok) == tok \in WordTokens

IsSpace(tok) == tok = " "

(* --------------------------- platform detection ------------------------ *)

Systems == {"darwin", "windows", "linux"}

CurrentPlatform(system) ==
    IF system = "darwin" THEN "MacOS"
    ELSE IF system = "windows" THEN "Windows"
    ELSE "Linux"

(* ----------------------------- line tests ------------------------------ *)

\* substring in line, for a word that is one token
Contains(line, tok) == \E i \in 1..Len(line) : line[i] = tok

SlashesAt(line, i) == i + 1 <= Len(line) /\ line[i] = "/" /\ line[i + 1] = "/"

\* "//" in line
is_commented(line) == \E i \in 1..Len(line) : SlashesAt(line, i)

\* not line.strip()
IsBlank(line) == \A i \in 1..Len(line) : IsSpace(line[i])

\* re.match(r'^\s*', line).group(0), as its length
IndentLen(line) ==
    CHOOSE n \in 0..Len(line) :
        /\ \A i \in 1..n : IsSpace(line[i])
        /\ n = Len(line) \/ ~IsSpace(line[n + 1])

\* the positions where the \w+ of (\w+)\s+Configuration can end
MatchEnds(line) ==
    {j \in 1..Len(line) :
        /\ IsWord(line[j])
        /\ \E k \in (j + 2)..Len(line) :
              /\ line[k] = CONFIGURATION
              /\ \A m \in (j + 1)..(k - 1) : IsSpace(line[m])}

\* the start of the run of word tokens that ends at j
RunStart(line, j) ==
    CHOOSE i \in 1..j :
        /\ \A m \in i..j : IsWord(line[m])
        /\ i = 1 \/ ~IsWord(line[i - 1])

\* re.search(r'(\w+)\s+Configuration', line): match[1] of the leftmost
\* match, None when there is no match
SectionMatch(line) ==
    IF MatchEnds(line) = {} THEN None
    ELSE LET j == CHOOSE e \in MatchEnds(line) :
                      \A o \in MatchEnds(line) : e <= o
         IN  SubSeq(line, RunStart(line, j), j)

(* --------------------------- line rewriting ---------------------------- *)

\* line.replace("//", "", 1)
Uncomment(line) ==
    IF ~is_commented(line) THEN line
    ELSE LET i == CHOOSE p \in 1..Len(line) :
                      /\ SlashesAt(line, p)
                      /\ \A q \in 1..(p - 1) : ~SlashesAt(line, q)
         IN  SubSeq(line, 1, i - 1) \o SubSeq(line, i + 2, Len(line))

\* f"{indent}//{content}"
Comment(line) ==
    LET n == IndentLen(line)
    IN  SubSeq(line, 1, n) \o <<"/", "/">> \o SubSeq(line, n + 1, Len(line))

(* ------------------------- the body of the loop ------------------------ *)
\* st is the scanner state [in_switch_block, current_section]; each branch
\* returns the lines it appends to result and the scanner state it leaves.

SwitchStart(line, st) ==
    [out |-> <<line>>, in_switch_block |-> TRUE,
     current_section |-> st.current_section]

\* SwitchEnd, were it to uncomment the line that holds the marker
SwitchEndUncomment(line, st) ==
    [out |-> <<Uncomment(line)>>, in_switch_block |-> FALSE,
     current_section |-> st.current_section]

\* SwitchEnd, were it to forget the section when the region closes
SwitchEndResetSection(line, st) ==
    [out |-> <<line>>, in_switch_block |-> FALSE, current_section |-> None]

SwitchEnd(line, st) ==
    [out |-> <<line>>, in_switch_block |-> FALSE,
     current_section |-> st.current_section]

\* OutsideBlock, were it to keep the rule of the script's earlier versions:
\* uncomment a line that names the platform, comment any other
OutsideBlockByLabel(line, st, platform) ==
    [out |-> <<IF Contains(line, platform) THEN Uncomment(line)
               ELSE IF is_commented(line) THEN line
               ELSE Comment(line)>>,
     in_switch_block |-> st.in_switch_block,
     current_section |-> st.current_section]

\* OutsideBlock, were it to uncomment every line outside the block
OutsideBlockUncomment(line, st, platform) ==
    [out |-> <<Uncomment(line)>>, in_switch_block |-> st.in_switch_block,
     current_section |-> st.current_section]

OutsideBlock(line, st, platform) ==
    [out |-> <<line>>, in_switch_block |-> st.in_switch_block,
     current_section |-> st.current_section]

SectionHeader(line, st) ==
    [out |-> <<line>>, in_switch_block |-> st.in_switch_block,
     current_section |-> IF SectionMatch(line) # None
                         THEN SectionMatch(line)
                         ELSE st.current_section]

\* IsSkipped, were it to test the empty line only
IsSkippedBlankOnly(line, st) == IsBlank(line)

\* not current_section or not line.strip()
IsSkipped(line, st) == st.current_section = None \/ IsBlank(line)

\* SkipLine, were it to continue without appending the line
SkipLineDropped(line, st) ==
    [out |-> <<>>, in_switch_block |-> st.in_switch_block,
     current_section |-> st.current_section]

SkipLine(line, st) ==
    [out |-> <<line>>, in_switch_block |-> st.in_switch_block,
     current_section |-> st.current_section]

PlatformLine(line, st, platform) ==
    LET is_active == st.current_section = <<platform>>
        new == IF is_active /\ is_commented(line) THEN Uncomment(line)
               ELSE IF ~is_active /\ ~is_commented(line) THEN Comment(line)
               ELSE line
    IN  [out |-> <<new>>, in_switch_block |-> st.in_switch_block,
         current_section |-> st.current_section]

ProcessLine(line, st, platform) ==
    IF Contains(line, START) THEN SwitchStart(line, st)
    ELSE IF Contains(line, END) THEN SwitchEnd(line, st)
    ELSE IF ~st.in_switch_block THEN OutsideBlock(line, st, platform)
    ELSE IF Contains(line, CONFIGURATION) THEN SectionHeader(line, st)
    ELSE IF IsSkipped(line, st) THEN SkipLine(line, st)
    ELSE PlatformLine(line, st, platform)

\* process_file as a function of the file content and the platform
RECURSIVE ProcessFrom(_, _, _, _)
ProcessFrom(ls, k, st, platform) ==
    IF k > Len(ls) THEN <<>>
    ELSE LET r == ProcessLine(ls[k], st, platform)
         IN  r.out \o ProcessFrom(ls, k + 1,
                 [in_switch_block |-> r.in_switch_block,
                  current_section |-> r.current_section], platform)

process_file(ls, platform) ==
    ProcessFrom(ls, 1, [in_switch_block |-> FALSE, current_section |-> None],
                platform)

(* ------------------------------ the files ------------------------------ *)

Lines ==
    { <<"/", "/", START>>,
      <<"/", "/", END>>,
      <<"/", "/", " ", "Windows", " ", CONFIGURATION>>,
      <<"/", "/", " ", "MacOS", " ", CONFIGURATION>>,
      <<"x", " ", CONFIGURATION>>,
      <<CONFIGURATION>>,
      <<"x">>,
      <<"/", "/", "x">>,
      <<" ", "/", "/", " ", "x">>,
      <<"x", "/", "/", "x">>,
      <<"/", "/", "/", "/", "x">>,
      <<" ">> }

RegionLines ==
    { <<"/", "/", START>>,
      <<"/", "/", END>>,
      <<"/", "/", " ", "Windows", " ", CONFIGURATION>>,
      <<"x">> }

SeqsUpTo(S, n) == UNION {[1..m -> S] : m \in 0..n}

Files == SeqsUpTo(Lines, MaxLines) \cup SeqsUpTo(RegionLines, MaxRegionLines)

(* ------------------------------ the script ----------------------------- *)

Init ==
    /\ \E system \in Systems : current_platform = CurrentPlatform(system)
    /\ file \in Files
    /\ lines = <<>>
    /\ result = <<>>
    /\ in_switch_block = FALSE
    /\ current_section = None
    /\ idx = 0
    /\ pc = "open"
    /\ runs = <<>>

\* ReadFile, were the scan to start inside a switch block
ReadFileInSwitchBlock ==
    /\ pc = "open"
    /\ lines' = file
    /\ result' = <<>>
    /\ in_switch_block' = TRUE
    /\ current_section' = None
    /\ idx' = 0
    /\ pc' = "loop"
    /\ UNCHANGED <<current_platform, file, runs>>

ReadFile ==
    /\ pc = "open"
    /\ lines' = file
    /\ result' = <<>>
    /\ in_switch_block' = FALSE
    /\ current_section' = None
    /\ idx' = 0
    /\ pc' = "loop"
    /\ UNCHANGED <<current_platform, file, runs>>

LoopStep ==
    /\ pc = "loop"
    /\ idx < Len(lines)
    /\ LET r == ProcessLine(lines[idx + 1],
                    [in_switch_block |-> in_switch_block,
                     current_section |-> current_section],
                    current_platform)
       IN  /\ result' = result \o r.out
           /\ in_switch_block' = r.in_switch_block
           /\ current_section' = r.current_section
    /\ idx' = idx + 1
    /\ UNCHANGED <<current_platform, file, lines, pc, runs>>

WriteFile ==
    /\ pc = "loop"
    /\ idx = Len(lines)
    /\ file' = result
    /\ runs' = Append(runs, [platform |-> current_platform, content |-> result])
    /\ pc' = "done"
    /\ UNCHANGED <<current_platform, lines, result, in_switch_block,
                   current_section, idx>>

\* the script is started again, on the same or on another host
Relaunch ==
    /\ pc = "done"
    /\ Len(runs) < MaxRuns
    /\ \E system \in Systems : current_platform' = CurrentPlatform(system)
    /\ pc' = "open"
    /\ UNCHANGED <<file, lines, result, in_switch_block, current_section,
                   idx, runs>>

Next == ReadFile \/ LoopStep \/ WriteFile

Spec == Init /\ [][Next]_vars

NextRerun == ReadFile \/ LoopStep \/ WriteFile \/ Relaunch

SpecRerun == Init /\ [][NextRerun]_vars

(* ------------------ the notions the properties speak of ---------------- *)
\* These are read off the file content alone, not off the scanner's state.

IsMarker(line) == Contains(line, START) \/ Contains(line, END)

Max(S) == CHOOSE m \in S : \A o \in S : o <= m

MarkersBefore(ls, i) == {j \in 1..(i - 1) : IsMarker(ls[j])}

\* line i lies in a switchable region: the last marker before it is a start
InSwitchAt(ls, i) ==
    /\ MarkersBefore(ls, i) # {}
    /\ Contains(ls[Max(MarkersBefore(ls, i))], START)

\* line i is a section header: a "<Label> Configuration" line in a region
IsHeaderAt(ls, i) ==
    /\ InSwitchAt(ls, i)
    /\ ~IsMarker(ls[i])
    /\ SectionMatch(ls[i]) # None

\* the section headers among the lines from..(i - 1)
HeadersBetween(ls, from, i) == {j \in from..(i - 1) : IsHeaderAt(ls, j)}

\* the label of the last section header before line i, None without one
SectionAt(ls, i) ==
    IF HeadersBetween(ls, 1, i) = {} THEN None
    ELSE SectionMatch(ls[Max(HeadersBetween(ls, 1, i))])

\* the line that opened the region line i lies in
RegionStart(ls, i) ==
    LET ends == {j \in MarkersBefore(ls, i) : ~Contains(ls[j], START)}
    IN  IF ends = {} THEN 1 ELSE Max(ends) + 1

\* line i is outside every region and is no marker
IsOutsideAt(ls, i) == ~InSwitchAt(ls, i) /\ ~IsMarker(ls[i])

\* line i is a body line of a region: no marker, no header line
IsBodyAt(ls, i) ==
    /\ InSwitchAt(ls, i)
    /\ ~IsMarker(ls[i])
    /\ ~Contains(ls[i], CONFIGURATION)

\* the line starts, after its indentation, with the comment prefix
StartsCommented(line) == SlashesAt(line, IndentLen(line) + 1)

\* the lines the loop has handled so far
Handled == 1..(IF Len(result) <= Len(lines) THEN Len(result) ELSE Len(lines))

(* ------------------------------ properties ----------------------------- *)

\* C1 (as claimed): running process_file twice in succession with the same
\* platform yields the content that running it once yields.
Idempotent ==
    \A k \in 2..Len(runs) :
        runs[k].platform = runs[k - 1].platform
            => runs[k].content = runs[k - 1].content

\* C2 (as claimed): from the file as a run with platform O left it, a run
\* with another platform A and then a run with O restore that file.
RoundTrip ==
    \A k \in 3..Len(runs) :
        (/\ runs[k].platform = runs[k - 2].platform
         /\ runs[k - 1].platform # runs[k].platform)
            => runs[k].content = runs[k - 2].content

\* C3: when no line of the file holds a start or an end marker, every line
\* is written as it was read, and the file written back equals the input.
NoMarkerFileUnchanged ==
    (\A i \in 1..Len(lines) : ~IsMarker(lines[i]))
        => /\ result = SubSeq(lines, 1, idx)
           /\ pc = "done" => file = lines

NoMarkerFileProcessed ==
    /\ pc = "done"
    /\ \A i \in 1..Len(lines) : ~IsMarker(lines[i])
    /\ \E i, j \in 1..Len(lines) :
          /\ i < j
          /\ SectionMatch(lines[i]) = <<current_platform>>
          /\ is_commented(lines[j])
          /\ ~Contains(lines[j], CONFIGURATION)

\* C4: every line that holds a start or an end marker is written unchanged
\* and at the position it was read at, whatever the scanner state there.
MarkersUnchanged ==
    /\ \A i \in Handled : IsMarker(lines[i]) => result[i] = lines[i]
    /\ pc = "done" =>
          /\ Len(file) = Len(lines)
          /\ \A i \in 1..Len(lines) : IsMarker(lines[i]) => file[i] = lines[i]

MarkerInActiveSection ==
    /\ pc = "done"
    /\ \E i \in 1..Len(lines) :
          /\ IsMarker(lines[i])
          /\ is_commented(lines[i])
          /\ InSwitchAt(lines, i)
          /\ SectionAt(lines, i) = <<current_platform>>

\* C5: the loop emits one line per line consumed, in order: the result is
\* as long as the number of lines consumed, each of its lines is the input
\* line of that position, as read or with its comment prefix toggled, and
\* the file written back has as many lines as the file read.
LineCountPreserved ==
    /\ Len(result) = idx
    /\ idx <= Len(lines)
    /\ \A i \in Handled :
          result[i] \in {lines[i], Uncomment(lines[i]), Comment(lines[i])}
    /\ pc = "done" => Len(file) = Len(lines)

AllBranchesCounted ==
    /\ pc = "done"
    /\ Len(lines) >= 3
    /\ \E i, j \in 1..Len(lines) :
          /\ IsBodyAt(lines, i) /\ SectionAt(lines, i) = None
          /\ IsBodyAt(lines, j) /\ result[j] # lines[j]

\* C6 (as claimed): after a run with platform P, a non-empty body line of a
\* region is uncommented when the label of its section equals P, and
\* commented, after its unchanged indentation, when the label differs.
BodyLinesFollowSection ==
    \A i \in Handled :
        (IsBodyAt(lines, i) /\ ~IsBlank(lines[i]) /\ SectionAt(lines, i) # None)
            => IF SectionAt(lines, i) = <<current_platform>>
               THEN ~StartsCommented(result[i])
               ELSE /\ StartsCommented(result[i])
                    /\ IndentLen(result[i]) = IndentLen(lines[i])

\* C7: a line outside every region is written as it was read, and is written
\* the same whatever the platform the file is processed with.
OutsideLinesPlatformIndependent ==
    \A i \in Handled :
        IsOutsideAt(lines, i)
            => /\ result[i] = lines[i]
               /\ \A system \in Systems :
                     LET other == process_file(lines, CurrentPlatform(system))
                     IN  i <= Len(other) /\ other[i] = result[i]

OutsideLineBesideToggledLine ==
    /\ pc = "done"
    /\ \E i, j \in 1..Len(lines) :
          /\ IsOutsideAt(lines, i)
          /\ ~IsBlank(lines[i])
          /\ IsBodyAt(lines, j)
          /\ result[j] # lines[j]

\* C8 (as claimed): a line outside every region that starts, after its
\* indentation, with the comment prefix is written with that prefix stripped.
OutsideLinesUncommented ==
    \A i \in Handled :
        (IsOutsideAt(lines, i) /\ StartsCommented(lines[i]))
            => result[i] = Uncomment(lines[i])

\* C8 (amended): a line outside every region that starts, after its
\* indentation, with the comment prefix keeps that prefix: it is written as
\* it was read.
OutsideCommentKept ==
    \A i \in Handled :
        (IsOutsideAt(lines, i) /\ StartsCommented(lines[i]))
            => /\ StartsCommented(result[i])
               /\ result[i] = lines[i]

OutsideCommentWritten ==
    /\ pc = "done"
    /\ \E i \in 1..Len(lines) :
          /\ IsOutsideAt(lines, i)
          /\ StartsCommented(lines[i])
          /\ IndentLen(lines[i]) > 0

\* C9: in a region a "<Label> Configuration" line sets the section to Label
\* and is written unchanged; the section changes at no other line; and each
\* body line is treated by the label of the last such header before it.
GovernedBy(line, section, platform) ==
    IF section = None \/ IsBlank(line) THEN line
    ELSE IF section = <<platform>> THEN Uncomment(line)
    ELSE IF is_commented(line) THEN line
    ELSE Comment(line)

HeaderStep ==
    (pc = "loop" /\ idx < Len(lines)) =>
        IF IsHeaderAt(lines, idx + 1)
        THEN /\ current_section' = SectionMatch(lines[idx + 1])
             /\ result' = Append(result, lines[idx + 1])
        ELSE current_section' = current_section

SectionSetOnlyByHeaders ==
    /\ [](\A i \in Handled :
             IsBodyAt(lines, i) =>
                 result[i] = GovernedBy(lines[i], SectionAt(lines, i),
                                        current_platform))
    /\ [][HeaderStep]_vars

HeaderGovernsAcrossRegions ==
    /\ pc = "done"
    /\ \E h, e, j \in 1..Len(lines) :
          /\ h < e /\ e < j
          /\ IsHeaderAt(lines, h)
          /\ Contains(lines[e], END)
          /\ IsBodyAt(lines, j)
          /\ HeadersBetween(lines, h + 1, j) = {}
          /\ result[j] # lines[j]

\* C10 (as claimed): in every region, a later one included, the body lines
\* between the start marker and the first section header of that region are
\* written unchanged.
NoSectionAtRegionStart ==
    \A i \in Handled :
        (/\ IsBodyAt(lines, i)
         /\ HeadersBetween(lines, RegionStart(lines, i), i) = {})
            => result[i] = lines[i]

\* C10 (amended): the body lines of a region that come before the first
\* section header of the file are written unchanged.
NoSectionBeforeFirstHeader ==
    \A i \in Handled :
        (IsBodyAt(lines, i) /\ HeadersBetween(lines, 1, i) = {})
            => result[i] = lines[i]

BodyLineBeforeFirstHeader ==
    /\ pc = "done"
    /\ \E i, j \in 1..Len(lines) :
          /\ i < j
          /\ IsBodyAt(lines, i)
          /\ ~IsBlank(lines[i])
          /\ HeadersBetween(lines, 1, i) = {}
          /\ IsBodyAt(lines, j)
          /\ result[j] # lines[j]

====
